---- MODULE Spec2Model ----
(***************************************************************************)
(* Model of the `declare_program!` procedural macro (src/src/lib.rs): the  *)
(* directive reader (DeclareInput::parse), the schema loader               *)
(* (read_idl_file and the serde shapes IdlV1 / IdlV2 / Instruction /       *)
(* Account / Arg), the binding synthesizer (generate_cpi_function_generic) *)
(* and the module emitter (generate_program_module), followed by one call  *)
(* of a generated binding.                                                 *)
(*                                                                         *)
(* A JSON document is a tagged value: an object is the sequence of its     *)
(* <<key, value>> members in textual order, so absent keys, extra keys and *)
(* repeated keys are all representable and the deserializers below have    *)
(* real work to do.  A token stream emitted by `quote!` is a record of the *)
(* items it contains.                                                      *)
(***************************************************************************)
EXTENDS Integers, Sequences, FiniteSets, TLC

VARIABLES
    input,   \* the directive: the macro's key = value pairs, in order
    directive, \* input_struct: what DeclareInput::parse returned (Idle before)
    fs,      \* the file system: path -> text of the file, or NoFile
    idl,     \* what read_idl_file returned in this invocation (Idle before)
    output,  \* what declare_program returned: a module, a compile error, a panic
    log,     \* the file-system and serde_json calls made, in order
    call     \* the Instruction built by one call of a generated binding

vars == <<input, fs, directive, idl, output, log, call>>

----------------------------------------------------------------------------
(* Bounds of the model. *)

MaxPairs == 3       \* key = value pairs in a directive
MaxAccounts == 2    \* accounts of an enumerated instruction
MaxArgs == 2        \* args of an enumerated instruction
MaxInstr == 2       \* instructions of an enumerated document
MaxArgLen == 1      \* bytes in one actual argument of a binding call

(* Program constants. *)

U8Modulus == 256     \* `index as u8`
DefaultVersion == 1  \* `idl_version.or(Some(1))`, `version.unwrap_or(1)`
PubkeyLen == 32      \* `[0u8; 32]`

----------------------------------------------------------------------------
(* JSON values. *)

JStr(s) == [t |-> "str", s |-> s]
JNum(n) == [t |-> "num", n |-> n]
JBool(b) == [t |-> "bool", b |-> b]
JArr(e) == [t |-> "arr", e |-> e]
JObj(f) == [t |-> "obj", f |-> f]
Malformed == [t |-> "malformed"]   \* text that is not JSON at all

Range(s) == {s[i] : i \in 1..Len(s)}

SeqsUpTo(S, n) == UNION {[1..k -> S] : k \in 0..n}

Distinct(s) == Cardinality(Range(s)) = Len(s)

(* The members of object members `f` whose key is one of `keys`. *)
Members(f, keys) == SelectSeq(f, LAMBDA p : p[1] \in keys)

(* Option<T> *)
None == [some |-> FALSE]
Some(x) == [some |-> TRUE, x |-> x]
UnwrapOr(o, d) == IF o.some THEN o.x ELSE d

(* Result<T, E> *)
Err == [ok |-> FALSE]
Ok(v) == [ok |-> TRUE, v |-> v]

AllOk(rs) == \A i \in 1..Len(rs) : rs[i].ok
Values(rs) == [i \in 1..Len(rs) |-> rs[i].v]

----------------------------------------------------------------------------
(* The serde shapes.  A derived Deserialize visits the members of a JSON   *)
(* object in order: a member whose key names a field (or one of its        *)
(* aliases) fills that field and must have the field's type, a second      *)
(* member for a filled field is a "duplicate field" error, a field left    *)
(* unfilled takes its #[serde(default)] or is a "missing field" error, and *)
(* the members that name no field go to the #[serde(flatten)] map when the *)
(* struct has one and are skipped otherwise.                               *)

IsObj(j) == j.t = "obj"
IsArr(j) == j.t = "arr"

(* A required field of type String. *)
HasString(f, keys) ==
    LET m == Members(f, keys) IN Len(m) = 1 /\ m[1][2].t = "str"
StringOf(f, keys) == Members(f, keys)[1][2].s

(* A #[serde(default)] field of type bool, under any of its aliases. *)
BoolWellTyped(f, keys) ==
    LET m == Members(f, keys) IN Len(m) = 0 \/ (Len(m) = 1 /\ m[1][2].t = "bool")
BoolOf(f, keys) ==
    LET m == Members(f, keys) IN IF Len(m) = 0 THEN FALSE ELSE m[1][2].b

OtherFields(f, known) == Range(SelectSeq(f, LAMBDA p : p[1] \notin known))

MutKeys == {"is_mut", "isMut", "writable", "mutable"}
SignerKeys == {"is_signer", "isSigner", "signer", "signs"}

(* struct Arg *)
DeArg(j) ==
    IF ~IsObj(j) THEN Err
    ELSE IF ~HasString(j.f, {"name"}) THEN Err
    ELSE IF Len(Members(j.f, {"type"})) # 1 THEN Err
    ELSE Ok([name |-> StringOf(j.f, {"name"}),
             arg_type |-> Members(j.f, {"type"})[1][2]])

(* struct Account *)
DeAccount(j) ==
    IF ~IsObj(j) THEN Err
    ELSE IF ~HasString(j.f, {"name"}) THEN Err
    ELSE IF ~BoolWellTyped(j.f, MutKeys) THEN Err
    ELSE IF ~BoolWellTyped(j.f, SignerKeys) THEN Err
    ELSE Ok([name |-> StringOf(j.f, {"name"}),
             is_mut |-> BoolOf(j.f, MutKeys),
             is_signer |-> BoolOf(j.f, SignerKeys),
             other_fields |-> OtherFields(j.f, {"name"} \cup MutKeys \cup SignerKeys)])

(* Vec<T>: a JSON array each of whose elements deserializes as T. *)
Collect(rs) == IF AllOk(rs) THEN Ok(Values(rs)) ELSE Err

DeVecAccount(j) ==
    IF ~IsArr(j) THEN Err ELSE Collect([i \in 1..Len(j.e) |-> DeAccount(j.e[i])])

DeVecArg(j) ==
    IF ~IsArr(j) THEN Err ELSE Collect([i \in 1..Len(j.e) |-> DeArg(j.e[i])])

(* struct Instruction: `accounts` is required, `args` defaults to empty. *)
DeInstruction(j) ==
    IF ~IsObj(j) THEN Err
    ELSE IF ~HasString(j.f, {"name"}) THEN Err
    ELSE IF Len(Members(j.f, {"accounts"})) # 1 THEN Err
    ELSE IF Len(Members(j.f, {"args"})) > 1 THEN Err
    ELSE LET accounts == DeVecAccount(Members(j.f, {"accounts"})[1][2])
             args == IF Len(Members(j.f, {"args"})) = 0 THEN Ok(<<>>)
                     ELSE DeVecArg(Members(j.f, {"args"})[1][2])
         IN  IF ~accounts.ok \/ ~args.ok THEN Err
             ELSE Ok([name |-> StringOf(j.f, {"name"}),
                      accounts |-> accounts.v,
                      args |-> args.v,
                      other_fields |-> OtherFields(j.f, {"name", "accounts", "args"})])

DeVecInstruction(j) ==
    IF ~IsArr(j) THEN Err ELSE Collect([i \in 1..Len(j.e) |-> DeInstruction(j.e[i])])

(* A slip in the shape: `spec` not required. *)
DeIdlMetadata_SpecOptional(j) ==
    IF ~IsObj(j) THEN Err
    ELSE IF ~HasString(j.f, {"name"}) THEN Err
    ELSE IF ~HasString(j.f, {"version"}) THEN Err
    ELSE Ok([name |-> StringOf(j.f, {"name"}),
             version |-> StringOf(j.f, {"version"}),
             spec |-> ""])

(* struct IdlMetadata *)
DeIdlMetadata(j) ==
    IF ~IsObj(j) THEN Err
    ELSE IF ~HasString(j.f, {"name"}) THEN Err
    ELSE IF ~HasString(j.f, {"version"}) THEN Err
    ELSE IF ~HasString(j.f, {"spec"}) THEN Err
    ELSE Ok([name |-> StringOf(j.f, {"name"}),
             version |-> StringOf(j.f, {"version"}),
             spec |-> StringOf(j.f, {"spec"})])

(* struct IdlV1, through serde_json::from_str *)
DeIdlV1(j) ==
    IF ~IsObj(j) THEN Err
    ELSE IF ~HasString(j.f, {"name"}) THEN Err
    ELSE IF Len(Members(j.f, {"instructions"})) # 1 THEN Err
    ELSE LET instructions == DeVecInstruction(Members(j.f, {"instructions"})[1][2])
         IN  IF ~instructions.ok THEN Err
             ELSE Ok([name |-> StringOf(j.f, {"name"}),
                      instructions |-> instructions.v,
                      other_fields |-> OtherFields(j.f, {"name", "instructions"})])

(* struct IdlV2, through serde_json::from_str *)
DeIdlV2(j) ==
    IF ~IsObj(j) THEN Err
    ELSE IF Len(Members(j.f, {"metadata"})) # 1 THEN Err
    ELSE IF Len(Members(j.f, {"instructions"})) # 1 THEN Err
    ELSE LET metadata == DeIdlMetadata(Members(j.f, {"metadata"})[1][2])
             instructions == DeVecInstruction(Members(j.f, {"instructions"})[1][2])
         IN  IF ~metadata.ok \/ ~instructions.ok THEN Err
             ELSE Ok([metadata |-> metadata.v,
                      instructions |-> instructions.v,
                      other_fields |-> OtherFields(j.f, {"metadata", "instructions"})])

----------------------------------------------------------------------------
(* read_idl_file.  The file is read first; the version is matched after,   *)
(* and only versions 1 and 2 hand the text to serde_json.                  *)

NoFile == [t |-> "nofile"]

(* The three errors of read_idl_file: the io::Error of read_to_string,     *)
(* "Failed to parse as V<n> IDL: ..." and "Unsupported IDL version: <v>.   *)
(* Supported versions: 1, 2".                                              *)
IoErr == [ok |-> FALSE, kind |-> "io"]
ParseFailure(tag) == [ok |-> FALSE, kind |-> "parse", tag |-> tag]
Unsupported(v) == [ok |-> FALSE, kind |-> "unsupported", version |-> v, supported |-> {1, 2}]

(* A slip in the loader: the text is parsed before the version is matched. *)
read_idl_file_ParseFirst(files, path, version) ==
    LET content == files[path]
        v == UnwrapOr(version, DefaultVersion)
    IN  IF content.t = "nofile"
        THEN [res |-> IoErr, steps |-> <<"read_to_string">>]
        ELSE LET idl_v1 == DeIdlV1(content)
             IN  IF ~idl_v1.ok
                 THEN [res |-> ParseFailure("V1"),
                       steps |-> <<"read_to_string", "from_str_v1">>]
                 ELSE IF v = 1
                 THEN [res |-> Ok([name |-> idl_v1.v.name,
                                   instructions |-> idl_v1.v.instructions]),
                       steps |-> <<"read_to_string", "from_str_v1">>]
                 ELSE [res |-> Unsupported(v),
                       steps |-> <<"read_to_string", "from_str_v1">>]

read_idl_file(files, path, version) ==
    LET content == files[path]
        v == UnwrapOr(version, DefaultVersion)
    IN  IF content.t = "nofile"
        THEN [res |-> IoErr, steps |-> <<"read_to_string">>]
        ELSE IF v = 1
        THEN LET idl_v1 == DeIdlV1(content)
             IN  [res |-> IF idl_v1.ok
                          THEN Ok([name |-> idl_v1.v.name,
                                   instructions |-> idl_v1.v.instructions])
                          ELSE ParseFailure("V1"),
                  steps |-> <<"read_to_string", "from_str_v1">>]
        ELSE IF v = 2
        THEN LET idl_v2 == DeIdlV2(content)
             IN  [res |-> IF idl_v2.ok
                          THEN Ok([name |-> idl_v2.v.metadata.name,
                                   instructions |-> idl_v2.v.instructions])
                          ELSE ParseFailure("V2"),
                  steps |-> <<"read_to_string", "from_str_v2">>]
        ELSE [res |-> Unsupported(v), steps |-> <<"read_to_string">>]

----------------------------------------------------------------------------
(* DeclareInput::parse.  The directive is a sequence of <<key, literal>>   *)
(* pairs; every literal has the type its key expects (a string literal, or *)
(* an integer literal in u32 range for idl_version), so the only failures  *)
(* left to the reader are the two it raises itself.                        *)

DirectiveKeys == {"name", "id", "idl_path", "idl_version"}

ParseErr(kind, key) == [ok |-> FALSE, kind |-> kind, key |-> key]

RECURSIVE ParsePairs(_, _)
ParsePairs(tokens, st) ==
    IF tokens = <<>> THEN Ok(st)
    ELSE LET key == Head(tokens)[1]
             value == Head(tokens)[2]
         IN  IF key = "name"
             THEN ParsePairs(Tail(tokens), [st EXCEPT !.name = Some(value)])
             ELSE IF key = "id"
             THEN ParsePairs(Tail(tokens), [st EXCEPT !.id = Some(value)])
             ELSE IF key = "idl_path"
             THEN ParsePairs(Tail(tokens), [st EXCEPT !.idl_path = Some(value)])
             ELSE IF key = "idl_version"
             THEN ParsePairs(Tail(tokens), [st EXCEPT !.idl_version = Some(value)])
             ELSE ParseErr("unknown_key", key)

(* A slip in the reader: keys it does not recognise are skipped. *)
DeclareInput_parse_Lenient(tokens) ==
    LET st == ParsePairs(SelectSeq(tokens, LAMBDA p : p[1] \in DirectiveKeys),
                         [name |-> None, id |-> None,
                          idl_path |-> None, idl_version |-> None])
    IN  IF ~st.v.name.some THEN ParseErr("missing", "name")
        ELSE IF ~st.v.idl_path.some THEN ParseErr("missing", "idl_path")
        ELSE Ok([name |-> st.v.name.x,
                 id |-> st.v.id,
                 idl_path |-> st.v.idl_path.x,
                 idl_version |-> IF st.v.idl_version.some THEN st.v.idl_version
                                 ELSE Some(DefaultVersion)])

DeclareInput_parse(tokens) ==
    LET st == ParsePairs(tokens, [name |-> None, id |-> None,
                                  idl_path |-> None, idl_version |-> None])
    IN  IF ~st.ok THEN st
        ELSE IF ~st.v.name.some THEN ParseErr("missing", "name")
        ELSE IF ~st.v.idl_path.some THEN ParseErr("missing", "idl_path")
        ELSE Ok([name |-> st.v.name.x,
                 id |-> st.v.id,
                 idl_path |-> st.v.idl_path.x,
                 idl_version |-> IF st.v.idl_version.some THEN st.v.idl_version
                                 ELSE Some(DefaultVersion)])

----------------------------------------------------------------------------
(* The binding synthesizer and the module emitter.                         *)

(* Ident::new panics on a string that is no identifier. *)
NotIdents == {"", "mint-to"}
IsIdent(s) == s \notin NotIdents

(* A slip in the match: the arms of (true, false) and (false, true) swapped. *)
AccountMetaCtor_Swapped(is_mut, is_signer) ==
    IF is_mut /\ is_signer THEN "writable_signer"
    ELSE IF is_mut /\ ~is_signer THEN "readonly_signer"
    ELSE IF ~is_mut /\ is_signer THEN "writable"
    ELSE "readonly"

(* The match on (account.is_mut, account.is_signer). *)
AccountMetaCtor(is_mut, is_signer) ==
    IF is_mut /\ is_signer THEN "writable_signer"
    ELSE IF is_mut /\ ~is_signer THEN "writable"
    ELSE IF ~is_mut /\ is_signer THEN "readonly_signer"
    ELSE "readonly"

(* A slip in the concatenation: the arguments before the accounts. *)
AllParams_ArgsFirst(account_params, arg_params) == arg_params \o account_params

(* [account_params, arg_params].concat() *)
AllParams(account_params, arg_params) == account_params \o arg_params

(* A slip in the payload: the arguments appended last to first. *)
InstructionData_Reversed(instruction, discriminant) ==
    [init |-> <<discriminant>>,
     extend |-> [i \in 1..Len(instruction.args) |->
                    instruction.args[Len(instruction.args) + 1 - i].name]]

(* The two forms of instruction_data: `vec![d]`, or the block that extends *)
(* `vec![d]` by each argument in turn.                                     *)
InstructionData(instruction, discriminant) ==
    IF instruction.args = <<>>
    THEN [init |-> <<discriminant>>, extend |-> <<>>]
    ELSE [init |-> <<discriminant>>,
          extend |-> [i \in 1..Len(instruction.args) |-> instruction.args[i].name]]

CpiPanics(instruction) ==
    \/ ~IsIdent(instruction.name)
    \/ \E i \in 1..Len(instruction.accounts) : ~IsIdent(instruction.accounts[i].name)
    \/ \E i \in 1..Len(instruction.args) : ~IsIdent(instruction.args[i].name)

generate_cpi_function_generic(instruction, discriminant) ==
    LET account_params == [i \in 1..Len(instruction.accounts) |->
                              [name |-> instruction.accounts[i].name, ty |-> "&AccountInfo"]]
        arg_params == [i \in 1..Len(instruction.args) |->
                          [name |-> instruction.args[i].name, ty |-> "Vec<u8>"]]
        account_metas == [i \in 1..Len(instruction.accounts) |->
                             [ctor |-> AccountMetaCtor(instruction.accounts[i].is_mut,
                                                       instruction.accounts[i].is_signer),
                              param |-> instruction.accounts[i].name]]
        account_infos == [i \in 1..Len(instruction.accounts) |->
                             instruction.accounts[i].name]
    IN  [function_name |-> instruction.name,
         params |-> AllParams(account_params, arg_params),
         account_metas |-> account_metas,
         data |-> InstructionData(instruction, discriminant),
         account_infos |-> account_infos]

ZeroPubkey == [i \in 1..PubkeyLen |-> 0]

(* A slip in the constant: the placeholder emitted whatever `id` says. *)
generate_program_id_constant_Placeholder(program_id) ==
    [PROGRAM_ID |-> "11111111111111111111111111111111", program_id |-> ZeroPubkey]

generate_program_id_constant(program_id) ==
    IF program_id.some
    THEN [PROGRAM_ID |-> program_id.x, program_id |-> ZeroPubkey]
    ELSE [PROGRAM_ID |-> "11111111111111111111111111111111", program_id |-> ZeroPubkey]

(* `index as u8`, index counted from 0 by enumerate(). *)
AsU8(index) == index % U8Modulus

CpiFunctions(instructions) ==
    [k \in 1..Len(instructions) |->
        generate_cpi_function_generic(instructions[k], AsU8(k - 1))]

(* A slip in the listing: the names collected last to first. *)
InstructionNames_Reversed(instructions) ==
    [k \in 1..Len(instructions) |-> instructions[Len(instructions) + 1 - k].name]

InstructionNames(instructions) ==
    [k \in 1..Len(instructions) |-> instructions[k].name]

(* A slip in the emitter: MODULE_NAME taken from the document's program name. *)
generate_program_module_DocumentName(module_name, program_id, program) ==
    IF \/ ~IsIdent(module_name)
       \/ \E k \in 1..Len(program.instructions) : CpiPanics(program.instructions[k])
    THEN [kind |-> "panic"]
    ELSE LET program_id_code == generate_program_id_constant(program_id)
         IN  [kind |-> "module",
              module_ident |-> module_name,
              MODULE_NAME |-> program.name,
              INSTRUCTION_COUNT |-> Len(program.instructions),
              INSTRUCTIONS |-> InstructionNames(program.instructions),
              PROGRAM_ID |-> program_id_code.PROGRAM_ID,
              program_id |-> program_id_code.program_id,
              functions |-> CpiFunctions(program.instructions)]

generate_program_module(module_name, program_id, program) ==
    IF \/ ~IsIdent(module_name)
       \/ \E k \in 1..Len(program.instructions) : CpiPanics(program.instructions[k])
    THEN [kind |-> "panic"]
    ELSE LET program_id_code == generate_program_id_constant(program_id)
         IN  [kind |-> "module",
              module_ident |-> module_name,
              MODULE_NAME |-> module_name,
              INSTRUCTION_COUNT |-> Len(program.instructions),
              INSTRUCTIONS |-> InstructionNames(program.instructions),
              PROGRAM_ID |-> program_id_code.PROGRAM_ID,
              program_id |-> program_id_code.program_id,
              functions |-> CpiFunctions(program.instructions)]

----------------------------------------------------------------------------
(* declare_program: the whole expansion of one macro invocation.           *)

Idle == [kind |-> "none"]

CompileError(stage, error) == [kind |-> "error", stage |-> stage, error |-> error]

(* A slip in the expansion: when the loader fails, the constants are still *)
(* emitted, without bindings.                                              *)
declare_program_Partial(tokens, files) ==
    LET input_struct == DeclareInput_parse(tokens)
    IN  IF ~input_struct.ok
        THEN [input_struct |-> input_struct, idl |-> Idle,
              out |-> CompileError("directive", input_struct), steps |-> <<>>]
        ELSE LET d == input_struct.v
                 r == read_idl_file(files, d.idl_path, d.idl_version)
             IN  [input_struct |-> input_struct, idl |-> r.res,
                  out |-> generate_program_module(d.name, d.id,
                             IF r.res.ok THEN r.res.v
                             ELSE [name |-> "", instructions |-> <<>>]),
                  steps |-> r.steps]

(* The results of one expansion: what the reader returned, what the loader *)
(* returned (Idle when it was not called), the tokens handed back to the   *)
(* compiler, and the file-system and serde_json calls made.                *)
declare_program(tokens, files) ==
    LET input_struct == DeclareInput_parse(tokens)
    IN  IF ~input_struct.ok
        THEN [input_struct |-> input_struct, idl |-> Idle,
              out |-> CompileError("directive", input_struct), steps |-> <<>>]
        ELSE LET d == input_struct.v
                 r == read_idl_file(files, d.idl_path, d.idl_version)
             IN  IF ~r.res.ok
                 THEN [input_struct |-> input_struct, idl |-> r.res,
                       out |-> CompileError("loader",
                                  [path |-> d.idl_path,
                                   version |-> UnwrapOr(d.idl_version, DefaultVersion),
                                   cause |-> r.res]),
                       steps |-> r.steps]
                 ELSE [input_struct |-> input_struct, idl |-> r.res,
                       out |-> generate_program_module(d.name, d.id, r.res.v),
                       steps |-> r.steps]

----------------------------------------------------------------------------
(* One call of a generated binding, as rustc compiles it: the parameters   *)
(* are bound by position, the body names them, and the items of a module   *)
(* and the parameters of a function must have distinct names.              *)

ParamNames(f) == [i \in 1..Len(f.params) |-> f.params[i].name]

Compiles(m) ==
    IF ~Distinct([k \in 1..Len(m.functions) |-> m.functions[k].function_name])
    THEN FALSE
    ELSE {k \in 1..Len(m.functions) : ~Distinct(ParamNames(m.functions[k]))} = {}

Keys == {"k1", "k2"}
Bytes == {0, 255}

AccountInfo(key) == [key |-> key]
VecU8(bytes) == [bytes |-> bytes]

ActualsOf(ty) ==
    IF ty = "&AccountInfo" THEN {AccountInfo(k) : k \in Keys}
    ELSE {VecU8(b) : b \in SeqsUpTo(Bytes, MaxArgLen)}

ActualLists(f) ==
    {a \in [1..Len(f.params) -> UNION {ActualsOf(ty) : ty \in {"&AccountInfo", "Vec<u8>"}}] :
        \A i \in 1..Len(f.params) : a[i] \in ActualsOf(f.params[i].ty)}

(* The value of parameter `name` in a call with actuals `a`. *)
Bound(f, a, name) == a[CHOOSE i \in 1..Len(f.params) : f.params[i].name = name]

(* `let mut data = vec![d]; data.extend(&arg); ...; data` *)
RECURSIVE ExtendAll(_, _, _, _)
ExtendAll(data, names, f, a) ==
    IF names = <<>> THEN data
    ELSE ExtendAll(data \o Bound(f, a, Head(names)).bytes, Tail(names), f, a)

BuildInstruction(m, f, a) ==
    [program_id |-> m.program_id,
     accounts |-> [i \in 1..Len(f.account_metas) |->
                      [meta |-> f.account_metas[i].ctor,
                       key |-> Bound(f, a, f.account_metas[i].param).key]],
     data |-> ExtendAll(f.data.init, f.data.extend, f, a)]

----------------------------------------------------------------------------
(* The inputs: directives and documents.                                   *)

Paths == {"idl.json", "missing.json"}

PairPool ==
    { <<"name", "m1">>, <<"name", "m2">>,
      <<"id", "TokenkegQfeZyiNwAJbNbGKPFXCWuBvf9Ss623VQ5DA">>,
      <<"id", "6EF8rrecthR5Dkzon8Nwu78hRvfCKubJ14M5uBEwF6P">>,
      <<"idl_path", "idl.json">>, <<"idl_path", "missing.json">>,
      <<"idl_version", 0>>, <<"idl_version", 1>>, <<"idl_version", 2>>,
      <<"idl_version", 3>>,
      <<"program", "x">> }

Directives == SeqsUpTo(PairPool, MaxPairs)

DirectiveV(v) == << <<"name", "m1">>, <<"idl_path", "idl.json">>, <<"idl_version", v>> >>

Member(k, v) == <<k, v>>

AccountJ(name, flags) == JObj(<<Member("name", JStr(name))>> \o flags)

AccountPool ==
    { AccountJ("src", <<Member("isMut", JBool(TRUE))>>),
      AccountJ("dst", <<Member("writable", JBool(TRUE)), Member("signer", JBool(TRUE))>>),
      AccountJ("auth", <<Member("is_signer", JBool(TRUE))>>),
      AccountJ("src", <<>>),
      AccountJ("dst", <<Member("mutable", JBool(FALSE)), Member("signs", JBool(FALSE)),
                        Member("docs", JStr("destination"))>>),
      AccountJ("auth", <<Member("isSigner", JBool(TRUE)), Member("is_mut", JBool(TRUE))>>),
      AccountJ("src", <<Member("isMut", JBool(TRUE)), Member("writable", JBool(FALSE))>>),
      AccountJ("src", <<Member("isMut", JStr("yes"))>>),
      AccountJ("mint-to", <<>>),
      JObj(<<Member("isMut", JBool(TRUE))>>) }

GoodAccounts ==
    { AccountJ("src", <<Member("isMut", JBool(TRUE))>>),
      AccountJ("dst", <<Member("writable", JBool(TRUE)), Member("signer", JBool(TRUE))>>),
      AccountJ("auth", <<Member("is_signer", JBool(TRUE))>>) }

ArgJ(name, ty) == JObj(<<Member("name", JStr(name)), Member("type", ty)>>)

ArgPool ==
    { ArgJ("amount", JStr("u64")),
      ArgJ("data", JObj(<<Member("vec", JStr("u8"))>>)),
      JObj(<<Member("name", JStr("amount"))>>) }

InstructionJ(name, accounts, args) ==
    JObj(<<Member("name", JStr(name)), Member("accounts", JArr(accounts)),
           Member("args", JArr(args))>>)

(* An instruction that leaves `args` out. *)
InstructionNoArgsJ(name, accounts) ==
    JObj(<<Member("name", JStr(name)), Member("accounts", JArr(accounts))>>)

InstructionPool ==
    { InstructionJ("transfer",
          << AccountJ("src", <<Member("isMut", JBool(TRUE))>>),
             AccountJ("dst", <<Member("writable", JBool(TRUE))>>),
             AccountJ("auth", <<Member("is_signer", JBool(TRUE))>>) >>,
          << ArgJ("amount", JStr("u64")) >>),
      InstructionNoArgsJ("revoke",
          << AccountJ("src", <<Member("isMut", JBool(TRUE))>>),
             AccountJ("auth", <<Member("signer", JBool(TRUE))>>) >>),
      InstructionJ("approve",
          << AccountJ("src", <<Member("mutable", JBool(TRUE))>>) >>,
          << ArgJ("src", JStr("u8")) >>),
      InstructionJ("mint-to", <<>>, <<>>),
      JObj(<<Member("name", JStr("burn"))>>) }

InstructionLists ==
    {<<InstructionNoArgsJ("transfer", a)>> : a \in SeqsUpTo(AccountPool, MaxAccounts)}
    \cup {<<InstructionJ("transfer", a, g)>> :
             a \in SeqsUpTo(GoodAccounts, MaxAccounts), g \in SeqsUpTo(ArgPool, MaxArgs)}
    \cup SeqsUpTo(InstructionPool, MaxInstr)

(* A document with n distinctly named instructions without accounts. *)
ManyInstructions(n) ==
    [k \in 1..n |-> InstructionNoArgsJ("ix" \o ToString(k - 1), <<>>)]

DocV1(name, instructions) ==
    JObj(<<Member("name", JStr(name)), Member("instructions", JArr(instructions))>>)

MetadataJ(name) ==
    JObj(<<Member("name", JStr(name)), Member("version", JStr("0.1.0")),
           Member("spec", JStr("0.1.0"))>>)

DocV2(name, instructions) ==
    JObj(<<Member("metadata", MetadataJ(name)), Member("instructions", JArr(instructions))>>)

OneInstruction == <<InstructionNoArgsJ("revoke", <<>>)>>

(* Documents that differ in their top-level shape. *)
ShapeDocs ==
    { Malformed,
      JNum(7),
      JArr(OneInstruction),
      JObj(<<Member("instructions", JArr(OneInstruction))>>),
      JObj(<<Member("name", JStr("tok"))>>),
      JObj(<<Member("name", JNum(7)), Member("instructions", JArr(OneInstruction))>>),
      JObj(<<Member("name", JStr("tok")), Member("instructions", JStr("none"))>>),
      JObj(<<Member("name", JStr("tok")), Member("name", JStr("tok2")),
             Member("instructions", JArr(OneInstruction))>>),
      JObj(<<Member("name", JStr("tok")), Member("instructions", JArr(OneInstruction)),
             Member("version", JStr("0.1.0"))>>),
      JObj(<<Member("name", JStr("tok")), Member("metadata", MetadataJ("pump")),
             Member("instructions", JArr(OneInstruction))>>),
      JObj(<<Member("metadata", MetadataJ("pump"))>>),
      JObj(<<Member("metadata", JStr("pump")), Member("instructions", JArr(OneInstruction))>>),
      JObj(<<Member("metadata", JObj(<<Member("name", JStr("pump")),
                                       Member("version", JStr("0.1.0"))>>)),
             Member("instructions", JArr(OneInstruction))>>),
      JObj(<<Member("metadata", JObj(<<Member("name", JStr("pump")),
                                       Member("version", JStr("0.1.0")),
                                       Member("spec", JStr("0.1.0")),
                                       Member("address", JStr("6EF8"))>>)),
             Member("instructions", JArr(OneInstruction))>>) }

Docs ==
    {DocV1("tok", l) : l \in InstructionLists}
    \cup {DocV2("pump", l) : l \in InstructionLists}
    \cup ShapeDocs
    \cup {DocV1("tok", ManyInstructions(n)) : n \in {U8Modulus, U8Modulus + 1}}

BaseDocs == {DocV1("tok", OneInstruction), DocV2("pump", OneInstruction), Malformed}

FileSystem(doc) == [p \in Paths |-> IF p = "idl.json" THEN doc ELSE NoFile]

(* Every directive over a few documents, and every document under a       *)
(* directive of each version.                                              *)
Scenarios ==
    {<<d, FileSystem(doc)>> : d \in Directives, doc \in BaseDocs}
    \cup {<<DirectiveV(v), FileSystem(doc)>> : v \in {1, 2}, doc \in Docs}

----------------------------------------------------------------------------
(* The state machine: one expansion of the macro, then one call of one of  *)
(* the bindings it generated.                                              *)

Init ==
    /\ \E s \in Scenarios : input = s[1] /\ fs = s[2]
    /\ directive = Idle
    /\ idl = Idle
    /\ output = Idle
    /\ log = <<>>
    /\ call = Idle

DeclareProgram ==
    /\ output = Idle
    /\ LET r == declare_program(input, fs)
       IN  /\ directive' = r.input_struct
           /\ idl' = r.idl
           /\ output' = r.out
           /\ log' = r.steps
    /\ UNCHANGED <<input, fs, call>>

(* What a call of binding k with actuals a builds and hands to invoke(). *)
Call(m, k, a) ==
    [kind |-> "call", function |-> k, actuals |-> a,
     instruction |-> BuildInstruction(m, m.functions[k], a),
     account_infos |-> [i \in 1..Len(m.functions[k].account_infos) |->
                           Bound(m.functions[k], a, m.functions[k].account_infos[i]).key]]

InvokeBinding ==
    /\ output.kind = "module"
    /\ Compiles(output)
    /\ call = Idle
    /\ call' \in UNION {{Call(output, k, a) : a \in ActualLists(output.functions[k])} :
                         k \in 1..Len(output.functions)}
    /\ UNCHANGED <<input, fs, directive, idl, output, log>>

Next == DeclareProgram \/ InvokeBinding

Spec == Init /\ [][Next]_vars

----------------------------------------------------------------------------
(* What the claims read off a state. *)

Emitted == output.kind = "module"
Called == call.kind = "call"

(* The document behind an emitted module, as JSON, and its instructions. *)
Document == fs["idl.json"]
DocInstructions == Members(Document.f, {"instructions"})[1][2].e
JName(j) == Members(j.f, {"name"})[1][2].s

(* The discriminant baked into binding k: the byte of its `vec![d]`. *)
Discriminant(k) == output.functions[k].data.init[1]

(* C1: in every emitted module the discriminant of each binding is the    *)
(* zero-based position of its instruction in the document's `instructions`*)
(* array, and the canonical program keeps the document's order.           *)
C1_DiscriminantIsPosition ==
    Emitted =>
        /\ Len(idl.v.instructions) = Len(DocInstructions)
        /\ \A k \in 1..Len(DocInstructions) :
              /\ idl.v.instructions[k].name = JName(DocInstructions[k])
              /\ output.functions[k].function_name = JName(DocInstructions[k])
              /\ Discriminant(k) = k - 1

(* C1 within the byte range: the same statement for the documents of at   *)
(* most 256 instructions.                                                 *)
C1_WithinByteRange ==
    (Emitted /\ Len(DocInstructions) <= U8Modulus) =>
        \A k \in 1..Len(DocInstructions) :
            /\ idl.v.instructions[k].name = JName(DocInstructions[k])
            /\ Discriminant(k) = k - 1

(* C2: a document of more than 256 instructions emits no module, and no   *)
(* two bindings of an emitted module have the same discriminant.          *)
C2_TooManyInstructionsRejected ==
    Emitted =>
        /\ Len(DocInstructions) <= U8Modulus
        /\ \A j, k \in 1..Len(output.functions) :
              Discriminant(j) = Discriminant(k) => j = k

(* The instruction a call is for, and the bytes passed for its n-th arg:  *)
(* the actuals after those of the accounts.                               *)
CalledInstruction == idl.v.instructions[call.function]
ArgBytes(n) == call.actuals[Len(CalledInstruction.accounts) + n].bytes

RECURSIVE TotalLen(_)
TotalLen(n) == IF n = 0 THEN 0 ELSE TotalLen(n - 1) + Len(ArgBytes(n))

PermissionTag(is_mut, is_signer) ==
    CASE is_mut /\ is_signer -> "writable_signer"
      [] is_mut /\ ~is_signer -> "writable"
      [] ~is_mut /\ is_signer -> "readonly_signer"
      [] ~is_mut /\ ~is_signer -> "readonly"

(* C4: the account-permission list of every binding has one entry per     *)
(* account, in declared order, each the tag that (is_mut, is_signer)      *)
(* selects; a call builds its AccountMeta list with those constructors,   *)
(* each on the key of the account passed in that position.                *)
C4_PermissionTags ==
    /\ Emitted =>
          \A k \in 1..Len(idl.v.instructions) :
              LET accounts == idl.v.instructions[k].accounts
                  metas == output.functions[k].account_metas
              IN  /\ Len(metas) = Len(accounts)
                  /\ \A i \in 1..Len(accounts) :
                        /\ metas[i].param = accounts[i].name
                        /\ metas[i].ctor =
                              PermissionTag(accounts[i].is_mut, accounts[i].is_signer)
    /\ Called =>
          LET accounts == CalledInstruction.accounts
          IN  /\ Len(call.instruction.accounts) = Len(accounts)
              /\ \A i \in 1..Len(accounts) :
                    /\ call.instruction.accounts[i].meta =
                          PermissionTag(accounts[i].is_mut, accounts[i].is_signer)
                    /\ call.instruction.accounts[i].key = call.actuals[i].key

C4_Witness ==
    /\ Called
    /\ Len(CalledInstruction.accounts) = 2
    /\ call.actuals[1].key # call.actuals[2].key
    /\ call.instruction.accounts[1].meta = "writable_signer"
    /\ call.instruction.accounts[2].meta = "readonly_signer"

(* C5: the parameters of every binding are one &AccountInfo per account   *)
(* in declared order, then one Vec<u8> per argument in declared order:    *)
(* A + N parameters for A accounts and N args.                            *)
C5_ParameterOrder ==
    Emitted =>
        \A k \in 1..Len(idl.v.instructions) :
            LET accounts == idl.v.instructions[k].accounts
                args == idl.v.instructions[k].args
                params == output.functions[k].params
            IN  /\ Len(params) = Len(accounts) + Len(args)
                /\ \A i \in 1..Len(accounts) :
                      params[i] = [name |-> accounts[i].name, ty |-> "&AccountInfo"]
                /\ \A n \in 1..Len(args) :
                      params[Len(accounts) + n] = [name |-> args[n].name, ty |-> "Vec<u8>"]

C5_Witness ==
    /\ Emitted
    /\ Len(idl.v.instructions) = 1
    /\ Len(idl.v.instructions[1].accounts) = 2
    /\ Len(idl.v.instructions[1].args) = 2
    /\ ParamNames(output.functions[1]) = <<"dst", "auth", "data", "amount">>

----------------------------------------------------------------------------
(* The directive as written, read without the reader. *)

Expanded == output # Idle
GivenKeys == {input[i][1] : i \in 1..Len(input)}
Given(key) == key \in GivenKeys
UnknownKeyGiven == GivenKeys \ {"name", "id", "idl_path", "idl_version"} # {}
LastOf(key) ==
    input[CHOOSE i \in 1..Len(input) :
              input[i][1] = key /\ \A j \in (i + 1)..Len(input) : input[j][1] # key][2]

RejectedWith(kind) == ~directive.ok /\ directive.kind = kind

(* The Directive the reader yields for the pairs given: `id` optional,    *)
(* the schema version 1 when `idl_version` is not given.                  *)
DirectiveAsGiven ==
    /\ directive.ok
    /\ directive.v.name = LastOf("name")
    /\ directive.v.idl_path = LastOf("idl_path")
    /\ directive.v.id = IF Given("id") THEN Some(LastOf("id")) ELSE None
    /\ directive.v.idl_version =
          IF Given("idl_version") THEN Some(LastOf("idl_version")) ELSE Some(1)

NoDocumentRead == log = <<>> /\ idl = Idle

(* C6 as stated: a missing-parameter error naming the key whenever `name`  *)
(* or `idl_path` is absent, an unknown-key error whenever another key is   *)
(* given, a Directive otherwise, and no document read on rejection.        *)
C6_AsStated ==
    Expanded =>
        /\ (~Given("name") \/ ~Given("idl_path")) =>
              /\ RejectedWith("missing")
              /\ directive.key \in {"name", "idl_path"} \ GivenKeys
        /\ UnknownKeyGiven => RejectedWith("unknown_key")
        /\ (Given("name") /\ Given("idl_path") /\ ~UnknownKeyGiven) => DirectiveAsGiven
        /\ ~directive.ok => NoDocumentRead

(* C6, amended: an unknown-key error whenever a key other than the four   *)
(* is given; with no such key, a missing-parameter error naming `name`    *)
(* when `name` is absent and naming `idl_path` when only `idl_path` is;   *)
(* a Directive otherwise; and no document read on rejection.              *)
C6_DirectiveReader ==
    Expanded =>
        /\ UnknownKeyGiven =>
              /\ RejectedWith("unknown_key")
              /\ directive.key \in GivenKeys \ {"name", "id", "idl_path", "idl_version"}
        /\ (~UnknownKeyGiven /\ ~Given("name")) =>
              /\ RejectedWith("missing")
              /\ directive.key = "name"
        /\ (~UnknownKeyGiven /\ Given("name") /\ ~Given("idl_path")) =>
              /\ RejectedWith("missing")
              /\ directive.key = "idl_path"
        /\ (Given("name") /\ Given("idl_path") /\ ~UnknownKeyGiven) => DirectiveAsGiven
        /\ ~directive.ok =>
              /\ NoDocumentRead
              /\ output = [kind |-> "error", stage |-> "directive", error |-> directive]

C6_Witness ==
    /\ Expanded
    /\ UnknownKeyGiven
    /\ ~Given("name")
    /\ Given("idl_path")
    /\ RejectedWith("unknown_key")
    /\ NoDocumentRead

(* C7: with the file readable, a requested version outside {1, 2} ends in *)
(* the unsupported-version error naming that version and the supported    *)
(* set, after the one call that reads the file and with no call that      *)
(* parses it: an outcome in which the text of the document does not occur.*)
C7_UnsupportedVersion ==
    (/\ Expanded
     /\ directive.ok
     /\ fs[directive.v.idl_path] # NoFile
     /\ Given("idl_version")
     /\ LastOf("idl_version") \notin {1, 2}) =>
        /\ output = [kind |-> "error", stage |-> "loader",
                     error |-> [path |-> LastOf("idl_path"),
                                version |-> LastOf("idl_version"),
                                cause |-> [ok |-> FALSE, kind |-> "unsupported",
                                           version |-> LastOf("idl_version"),
                                           supported |-> {1, 2}]]]
        /\ log = <<"read_to_string">>

C7_Witness ==
    /\ Expanded
    /\ directive.ok
    /\ directive.v.idl_version = Some(3)
    /\ fs[directive.v.idl_path] = Malformed
    /\ output.kind = "error"
    /\ output.error.cause.kind = "unsupported"

----------------------------------------------------------------------------
(* The shape of a document, read without the deserializers. *)

At(f, keys) == {i \in 1..Len(f) : f[i][1] \in keys}
Once(f, keys) == Cardinality(At(f, keys)) = 1
AtMostOnce(f, keys) == Cardinality(At(f, keys)) <= 1
ValueAt(f, keys) == f[CHOOSE i \in At(f, keys) : TRUE][2]
OnceString(f, key) == Once(f, {key}) /\ ValueAt(f, {key}).t = "str"
FlagShaped(f, keys) ==
    AtMostOnce(f, keys) /\ (At(f, keys) # {} => ValueAt(f, keys).t = "bool")
FlagValue(f, keys) == IF At(f, keys) = {} THEN FALSE ELSE ValueAt(f, keys).b

ShapedArg(j) == j.t = "obj" /\ OnceString(j.f, "name") /\ Once(j.f, {"type"})

ShapedArgs(j) == j.t = "arr" /\ \A i \in 1..Len(j.e) : ShapedArg(j.e[i])

ShapedAccount(j) ==
    /\ j.t = "obj"
    /\ OnceString(j.f, "name")
    /\ FlagShaped(j.f, {"is_mut", "isMut", "writable", "mutable"})
    /\ FlagShaped(j.f, {"is_signer", "isSigner", "signer", "signs"})

ShapedAccounts(j) == j.t = "arr" /\ \A i \in 1..Len(j.e) : ShapedAccount(j.e[i])

ShapedInstruction(j) ==
    /\ j.t = "obj"
    /\ OnceString(j.f, "name")
    /\ Once(j.f, {"accounts"})
    /\ ShapedAccounts(ValueAt(j.f, {"accounts"}))
    /\ AtMostOnce(j.f, {"args"})
    /\ At(j.f, {"args"}) # {} => ShapedArgs(ValueAt(j.f, {"args"}))

ShapedInstructions(f) ==
    /\ Once(f, {"instructions"})
    /\ ValueAt(f, {"instructions"}).t = "arr"
    /\ \A k \in 1..Len(ValueAt(f, {"instructions"}).e) :
          ShapedInstruction(ValueAt(f, {"instructions"}).e[k])

ShapedMetadata(j) ==
    /\ j.t = "obj"
    /\ OnceString(j.f, "name")
    /\ OnceString(j.f, "version")
    /\ OnceString(j.f, "spec")

Shaped(doc, version) ==
    /\ doc.t = "obj"
    /\ IF version = 1 THEN OnceString(doc.f, "name")
       ELSE Once(doc.f, {"metadata"}) /\ ShapedMetadata(ValueAt(doc.f, {"metadata"}))
    /\ ShapedInstructions(doc.f)

(* A document without the top-level fields its version requires. *)
LacksRequired(doc, version) ==
    \/ doc.t # "obj"
    \/ At(doc.f, {"instructions"}) = {}
    \/ version = 1 /\ At(doc.f, {"name"}) = {}
    \/ /\ version = 2
       /\ \/ At(doc.f, {"metadata"}) = {}
          \/ \E i \in At(doc.f, {"metadata"}) :
                \/ doc.f[i][2].t # "obj"
                \/ \E key \in {"name", "version", "spec"} : At(doc.f[i][2].f, {key}) = {}

DeclaredName(doc, version) ==
    IF version = 1 THEN ValueAt(doc.f, {"name"}).s
    ELSE ValueAt(ValueAt(doc.f, {"metadata"}).f, {"name"}).s

(* Canonical instruction `c` is JSON instruction `j` verbatim. *)
Verbatim(c, j) ==
    LET accounts == ValueAt(j.f, {"accounts"}).e
        args == IF At(j.f, {"args"}) = {} THEN <<>> ELSE ValueAt(j.f, {"args"}).e
    IN  /\ c.name = ValueAt(j.f, {"name"}).s
        /\ Len(c.accounts) = Len(accounts)
        /\ \A i \in 1..Len(accounts) :
              /\ c.accounts[i].name = ValueAt(accounts[i].f, {"name"}).s
              /\ c.accounts[i].is_mut =
                    FlagValue(accounts[i].f, {"is_mut", "isMut", "writable", "mutable"})
              /\ c.accounts[i].is_signer =
                    FlagValue(accounts[i].f, {"is_signer", "isSigner", "signer", "signs"})
        /\ Len(c.args) = Len(args)
        /\ \A n \in 1..Len(args) :
              /\ c.args[n].name = ValueAt(args[n].f, {"name"}).s
              /\ c.args[n].arg_type = ValueAt(args[n].f, {"type"})

VersionTag(version) == IF version = 1 THEN "V1" ELSE "V2"

C9_AllOrNothing ==
    Expanded =>
        /\ \/ /\ output.kind = "module"
              /\ DOMAIN output = {"kind", "module_ident", "MODULE_NAME", "INSTRUCTION_COUNT",
                                  "INSTRUCTIONS", "PROGRAM_ID", "program_id", "functions"}
              /\ directive.ok
              /\ idl # Idle
              /\ idl.ok
              /\ Len(output.functions) = Len(idl.v.instructions)
           \/ /\ output.kind = "error"
              /\ DOMAIN output = {"kind", "stage", "error"}
           \/ /\ output.kind = "panic"
              /\ DOMAIN output = {"kind"}
        /\ ~directive.ok => output.kind = "error" /\ output.stage = "directive"
        /\ (directive.ok /\ ~idl.ok) => output.kind = "error" /\ output.stage = "loader"

C9_Witness ==
    /\ Expanded
    /\ directive.ok
    /\ ~idl.ok
    /\ idl.kind = "io"
    /\ output.kind = "error"
    /\ DOMAIN output = {"kind", "stage", "error"}

(* C10: in every emitted module INSTRUCTION_COUNT is the number of        *)
(* instructions of the canonical program and the length of INSTRUCTIONS,  *)
(* INSTRUCTIONS lists the instruction names in document order, one entry  *)
(* per declaration, and there is one binding per instruction, named after *)
(* it.                                                                    *)
C10_Constants ==
    Emitted =>
        /\ output.INSTRUCTION_COUNT = Len(idl.v.instructions)
        /\ output.INSTRUCTION_COUNT = Len(output.INSTRUCTIONS)
        /\ output.INSTRUCTION_COUNT = Len(DocInstructions)
        /\ Len(output.functions) = output.INSTRUCTION_COUNT
        /\ \A k \in 1..Len(DocInstructions) :
              /\ output.INSTRUCTIONS[k] = JName(DocInstructions[k])
              /\ output.INSTRUCTIONS[k] = idl.v.instructions[k].name
              /\ output.functions[k].function_name = idl.v.instructions[k].name

C10_Witness ==
    /\ Emitted
    /\ output.INSTRUCTION_COUNT = 2
    /\ output.INSTRUCTIONS = <<"transfer", "revoke">>
    /\ output.functions[1].function_name = "transfer"
    /\ output.functions[2].function_name = "revoke"

(* C11: PROGRAM_ID of an emitted module is the directive's `id` when one  *)
(* is given and the string of thirty-two '1' when none is; a directive is *)
(* never rejected over `id`; and program_id(), which every binding puts   *)
(* in the Instruction it builds, is the 32 zero bytes either way.         *)
C11_ProgramId ==
    /\ Emitted =>
          /\ output.PROGRAM_ID =
                IF Given("id") THEN LastOf("id") ELSE "11111111111111111111111111111111"
          /\ Len(output.program_id) = 32
          /\ \A i \in 1..32 : output.program_id[i] = 0
    /\ (Expanded /\ ~directive.ok) => directive.key # "id"
    /\ (Expanded /\ ~Given("id") /\ Given("name") /\ Given("idl_path") /\ ~UnknownKeyGiven) =>
          /\ directive.ok
          /\ directive.v.id = [some |-> FALSE]
    /\ Called =>
          /\ Len(call.instruction.program_id) = 32
          /\ \A i \in 1..32 : call.instruction.program_id[i] = 0

C11_Witness ==
    /\ Emitted
    /\ Given("id")
    /\ output.PROGRAM_ID = "TokenkegQfeZyiNwAJbNbGKPFXCWuBvf9Ss623VQ5DA"
    /\ Len(output.program_id) = 32
    /\ output.program_id[1] = 0

(* The same case without `id`: the placeholder, and no error. *)
C11_WitnessOmitted ==
    /\ Emitted
    /\ ~Given("id")
    /\ output.PROGRAM_ID = "11111111111111111111111111111111"

(* C12: MODULE_NAME of an emitted module, and the name of the module      *)
(* itself, is the directive's `name` under either schema version, whatever*)
(* the document calls the program (`name` in v1, `metadata.name` in v2).  *)
C12_ModuleName ==
    Emitted =>
        /\ output.MODULE_NAME = LastOf("name")
        /\ output.module_ident = LastOf("name")
        /\ directive.v.idl_version.x \in {1, 2}
        /\ idl.v.name = DeclaredName(Document, directive.v.idl_version.x)

C12_Witness ==
    /\ Emitted
    /\ directive.v.idl_version.x = 2
    /\ idl.v.name = "pump"
    /\ LastOf("name") = "m2"
    /\ output.MODULE_NAME = "m2"
    /\ output.MODULE_NAME # idl.v.name

====
